---- MODULE Spec2Model ----
(***************************************************************************)
(* TechDocs addon contexts (plugins/techdocs-addons/src/context.tsx).      *)
(*                                                                         *)
(* Two families of behaviour are modelled over one set of variables:       *)
(*   Spec        the fetching providers TechDocsMetadataProvider and       *)
(*               TechDocsEntityProvider (useAsync with an empty dependency *)
(*               list, then the not-found / children render);              *)
(*   ReaderSpec  TechDocsReaderPageProvider, the default context value and *)
(*               the hooks useTechDocsReaderPage, useShadowRoot and        *)
(*               useShadowRootElements.                                    *)
(***************************************************************************)
EXTENDS FiniteSets, Integers, Sequences, TLC

VARIABLES
    \* ---- fetching provider (one slot in the render tree) ----
    provider,        \* which component is mounted in the slot
    mounted,         \* is an instance currently mounted
    mountId,         \* number of instances created so far; identifies the instance
    entityName,      \* the entityName prop of the latest render
    mountEntityName, \* the entityName prop of the instance's first render
    asyncState,      \* useAsync's state {loading, value, error} of the instance
    lastCallId,      \* useAsync's lastCallId ref of the instance
    inflight,        \* promises returned by the API and not yet settled
    apiCalls,        \* every call made to the TechDocs API so far
    fetchOutcome,    \* how the instance's own fetch settled (pending until then)
    rendered,        \* what the latest render of the slot returned
    \* ---- reader page provider and hooks ----
    rpMounted,       \* is a TechDocsReaderPageProvider mounted
    rpEntityName,    \* its entityName prop in the latest render
    rpMountEntityName, \* its entityName prop at mount
    title,           \* useState cell
    subtitle,        \* useState cell
    shadowRoot,      \* useState cell
    rpValue,         \* the context value its latest render provided
    defaultValue,    \* the defaultTechDocsReaderPageValue object
    hook             \* the latest hook or setter call of a consumer and its result

fetchVars == <<provider, mounted, mountId, entityName, mountEntityName, asyncState,
               lastCallId, inflight, apiCalls, fetchOutcome, rendered>>
readerVars == <<rpMounted, rpEntityName, rpMountEntityName, title, subtitle,
                shadowRoot, rpValue, defaultValue, hook>>
vars == <<provider, mounted, mountId, entityName, mountEntityName, asyncState,
          lastCallId, inflight, apiCalls, fetchOutcome, rendered,
          rpMounted, rpEntityName, rpMountEntityName, title, subtitle,
          shadowRoot, rpValue, defaultValue, hook>>

(***************************************************************************)
(* Bounds and input domains                                                *)
(***************************************************************************)
MaxMounts == 3
MaxSelectors == 2

Undefined == "undefined"
NoContext == "no-provider"

EntityRefs ==
    { [kind |-> "Component", name |-> "docs", namespace |-> "default"],
      [kind |-> "API", name |-> "petstore", namespace |-> "default"] }

Providers == {"TechDocsMetadataProvider", "TechDocsEntityProvider"}

\* what the remote API can resolve with, and what it can reject with
MetadataValues == {"metadata-1", "metadata-2"}
ErrorValues == {"NotFoundError", "TypeError", Undefined}

\* JavaScript truthiness of the values above
Truthy(v) == v # Undefined

(***************************************************************************)
(* TechDocsMetadataProvider / TechDocsEntityProvider                       *)
(***************************************************************************)
ApiMethod(p) ==
    IF p = "TechDocsMetadataProvider" THEN "getTechDocsMetadata"
    ELSE "getEntityMetadata"

\* useAsync(..., {loading: true}): the state of a fresh instance
InitialAsyncState == [loading |-> TRUE, value |-> Undefined, error |-> Undefined]

\* the dependency list handed to useAsync: [] whatever the props are
DepsWithEntityName(e) == <<e>>
Deps(e) == <<>>

\* useMountedState of instance m: true from its mount to its unmount
IsMountedAlways(m) == TRUE
IsMounted(m) == mounted /\ m = mountId

\* the component's return value, computed from useAsync's state
RenderNotFoundWhileLoading(s) ==
    IF s.loading \/ Truthy(s.error)
    THEN [view |-> "NotFoundErrorPage", context |-> NoContext]
    ELSE [view |-> "children", context |-> s.value]
Render(s) ==
    IF ~s.loading /\ Truthy(s.error)
    THEN [view |-> "NotFoundErrorPage", context |-> NoContext]
    ELSE [view |-> "children", context |-> s.value]

Unmounted == [view |-> "unmounted", context |-> NoContext]

Promise(m, c, e) == [mount |-> m, callId |-> c, entityName |-> e]
ApiCall(p, m, c, e) == [method |-> ApiMethod(p), mount |-> m, callId |-> c, entityName |-> e]

\* first render, commit and mount effect of a fresh instance: the effect runs
\* the callback once, which calls the API with the entityName of this render
Mount(p, e) ==
    /\ ~mounted
    /\ mountId < MaxMounts
    /\ provider' = p
    /\ mounted' = TRUE
    /\ mountId' = mountId + 1
    /\ entityName' = e
    /\ mountEntityName' = e
    /\ asyncState' = InitialAsyncState
    /\ lastCallId' = 1
    /\ inflight' = inflight \cup {Promise(mountId + 1, 1, e)}
    /\ apiCalls' = apiCalls \cup {ApiCall(p, mountId + 1, 1, e)}
    /\ fetchOutcome' = [status |-> "pending", result |-> Undefined]
    /\ rendered' = Render(InitialAsyncState)
    /\ UNCHANGED readerVars

\* the parent renders the instance again, with the same or another entityName;
\* the effect runs again only if the dependency list changed
Rerender(e) ==
    /\ mounted
    /\ entityName' = e
    /\ IF Deps(e) # Deps(entityName)
       THEN /\ lastCallId' = lastCallId + 1
            /\ asyncState' = [asyncState EXCEPT !.loading = TRUE]
            /\ inflight' = inflight \cup {Promise(mountId, lastCallId + 1, e)}
            /\ apiCalls' = apiCalls \cup {ApiCall(provider, mountId, lastCallId + 1, e)}
            /\ fetchOutcome' = [status |-> "pending", result |-> Undefined]
       ELSE UNCHANGED <<lastCallId, asyncState, inflight, apiCalls, fetchOutcome>>
    /\ rendered' = Render(asyncState')
    /\ UNCHANGED <<provider, mounted, mountId, mountEntityName>>
    /\ UNCHANGED readerVars

\* a promise settles; its instance takes the result if it is still mounted and
\* the promise is that of its latest call
Settle(pr, s, outcome) ==
    /\ pr \in inflight
    /\ inflight' = inflight \ {pr}
    /\ IF IsMounted(pr.mount) /\ pr.callId = lastCallId
       THEN /\ asyncState' = s
            /\ fetchOutcome' = outcome
       ELSE UNCHANGED <<asyncState, fetchOutcome>>
    /\ rendered' = IF mounted THEN Render(asyncState') ELSE rendered
    /\ UNCHANGED <<provider, mounted, mountId, entityName, mountEntityName,
                   lastCallId, apiCalls>>
    /\ UNCHANGED readerVars

Resolve(pr, v) ==
    Settle(pr, [loading |-> FALSE, value |-> v, error |-> Undefined],
           [status |-> "resolved", result |-> v])

Reject(pr, err) ==
    Settle(pr, [loading |-> FALSE, value |-> Undefined, error |-> err],
           [status |-> "rejected", result |-> err])

Unmount ==
    /\ mounted
    /\ mounted' = FALSE
    /\ rendered' = Unmounted
    /\ UNCHANGED <<provider, mountId, entityName, mountEntityName, asyncState,
                   lastCallId, inflight, apiCalls, fetchOutcome>>
    /\ UNCHANGED readerVars

\* the fetch phase as the render distinguishes it
Phase(s) ==
    IF s.loading THEN "pending"
    ELSE IF Truthy(s.error) THEN "failure"
    ELSE "success"

(***************************************************************************)
(* TechDocsReaderPageProvider, the default value and the hooks             *)
(***************************************************************************)
Titles == {"X", "Y"}
ShadowRoots == {"shadow-root-1", "shadow-root-2"}
Selectors == {"a", "b", ".x"}

\* the value of defaultTechDocsReaderPageValue (its setters are the operators
\* DefaultSetTitle, DefaultSetSubtitle and DefaultSetShadowRoot below)
EmptyEntityRef == [kind |-> "", name |-> "", namespace |-> ""]

defaultTechDocsReaderPageValue ==
    [entityName |-> EmptyEntityRef, shadowRoot |-> Undefined,
     title |-> "", subtitle |-> ""]

\* setTitle: () => {}, setSubtitle: () => {}, setShadowRoot: () => {}
DefaultSetTitleWrites(v, x) == [v EXCEPT !.title = x]
DefaultSetTitle(v, x) == v
DefaultSetSubtitle(v, x) == v
DefaultSetShadowRoot(v, r) == v

\* the object the provider hands to TechDocsReaderPageContext.Provider
ReaderPageValueEmptyEntity(e, sr, t, st) ==
    [entityName |-> EmptyEntityRef, shadowRoot |-> sr, title |-> t, subtitle |-> st]
ReaderPageValueSwapped(e, sr, t, st) ==
    [entityName |-> e, shadowRoot |-> sr, title |-> st, subtitle |-> t]
ReaderPageValue(e, sr, t, st) ==
    [entityName |-> e, shadowRoot |-> sr, title |-> t, subtitle |-> st]

\* useContext(TechDocsReaderPageContext) of a consumer inside the mounted
\* provider, or of one with no provider above it
useTechDocsReaderPage(inside) == IF inside THEN rpValue ELSE defaultValue

useShadowRoot(ctx) == ctx.shadowRoot

\* the elements of each shadow root, in document order
Dom(root) ==
    IF root = "shadow-root-1"
    THEN << [id |-> 1, tag |-> "a", class |-> "x"],
            [id |-> 2, tag |-> "p", class |-> ""],
            [id |-> 3, tag |-> "a", class |-> ""] >>
    ELSE << [id |-> 4, tag |-> "p", class |-> "x"] >>

Matches(el, selector) ==
    CASE selector = "a" -> el.tag = "a"
      [] selector = "b" -> el.tag = "b"
      [] selector = ".x" -> el.class = "x"

IsMatch(root, selector, i) == Matches(Dom(root)[i], selector)

RECURSIVE MatchesFrom(_, _, _)
MatchesFrom(root, selector, i) ==
    IF i > Len(Dom(root)) THEN <<>>
    ELSE (IF IsMatch(root, selector, i) THEN <<Dom(root)[i]>> ELSE <<>>)
         \o MatchesFrom(root, selector, i + 1)

querySelectorAll(root, selector) == MatchesFrom(root, selector, 1)

RECURSIVE Flat(_)
Flat(lists) ==
    IF lists = <<>> THEN <<>> ELSE Head(lists) \o Flat(Tail(lists))

RECURSIVE Filter(_)
Filter(lists) ==
    IF lists = <<>> THEN <<>>
    ELSE (IF Len(Head(lists)) # 0 THEN <<Head(lists)>> ELSE <<>>)
         \o Filter(Tail(lists))

RECURSIVE FilterMoreThanOne(_)
FilterMoreThanOne(lists) ==
    IF lists = <<>> THEN <<>>
    ELSE (IF Len(Head(lists)) > 1 THEN <<Head(lists)>> ELSE <<>>)
         \o FilterMoreThanOne(Tail(lists))

RECURSIVE Map(_, _)
Map(root, selectors) ==
    IF selectors = <<>> THEN <<>>
    ELSE <<querySelectorAll(root, Head(selectors))>> \o Map(root, Tail(selectors))

\* selectors.map(querySelectorAll).filter(length).map(Array.from).flat()
useShadowRootElementsDropSingles(ctx, selectors) ==
    IF useShadowRoot(ctx) = Undefined THEN <<>>
    ELSE Flat(FilterMoreThanOne(Map(useShadowRoot(ctx), selectors)))
useShadowRootElementsStaleRoot(ctx, selectors) ==
    Flat(Filter(Map(IF useShadowRoot(ctx) = Undefined THEN "shadow-root-1"
                    ELSE useShadowRoot(ctx), selectors)))
useShadowRootElements(ctx, selectors) ==
    IF useShadowRoot(ctx) = Undefined THEN <<>>
    ELSE Flat(Filter(Map(useShadowRoot(ctx), selectors)))

NoHook == [name |-> "none", inside |-> FALSE, arg |-> Undefined,
           selectors |-> <<>>, elements |-> <<>>,
           page |-> defaultTechDocsReaderPageValue]

HookCall(n, inside, a, page) ==
    [name |-> n, inside |-> inside, arg |-> a, selectors |-> <<>>,
     elements |-> <<>>, page |-> page]

\* first render of a fresh provider: the three useState cells take the defaults
RPMount(e) ==
    /\ ~rpMounted
    /\ rpMounted' = TRUE
    /\ rpEntityName' = e
    /\ rpMountEntityName' = e
    /\ title' = defaultTechDocsReaderPageValue.title
    /\ subtitle' = defaultTechDocsReaderPageValue.subtitle
    /\ shadowRoot' = defaultTechDocsReaderPageValue.shadowRoot
    /\ rpValue' = ReaderPageValue(e, shadowRoot', title', subtitle')
    /\ hook' = NoHook
    /\ UNCHANGED defaultValue
    /\ UNCHANGED fetchVars

\* the parent renders the provider again, with the same or another entityName
RPRerender(e) ==
    /\ rpMounted
    /\ rpEntityName' = e
    /\ rpValue' = ReaderPageValue(e, shadowRoot, title, subtitle)
    /\ hook' = NoHook
    /\ UNCHANGED <<rpMounted, rpMountEntityName, title, subtitle, shadowRoot,
                   defaultValue>>
    /\ UNCHANGED fetchVars

\* a descendant calls a setter of the provided value; the provider renders again
SetTitle(x) ==
    /\ rpMounted
    /\ title' = x
    /\ rpValue' = ReaderPageValue(rpEntityName, shadowRoot, title', subtitle)
    /\ hook' = HookCall("setTitle", TRUE, x, rpValue')
    /\ UNCHANGED <<rpMounted, rpEntityName, rpMountEntityName, subtitle,
                   shadowRoot, defaultValue>>
    /\ UNCHANGED fetchVars

SetSubtitle(x) ==
    /\ rpMounted
    /\ subtitle' = x
    /\ rpValue' = ReaderPageValue(rpEntityName, shadowRoot, title, subtitle')
    /\ hook' = HookCall("setSubtitle", TRUE, x, rpValue')
    /\ UNCHANGED <<rpMounted, rpEntityName, rpMountEntityName, title,
                   shadowRoot, defaultValue>>
    /\ UNCHANGED fetchVars

SetShadowRoot(r) ==
    /\ rpMounted
    /\ shadowRoot' = r
    /\ rpValue' = ReaderPageValue(rpEntityName, shadowRoot', title, subtitle)
    /\ hook' = HookCall("setShadowRoot", TRUE, r, rpValue')
    /\ UNCHANGED <<rpMounted, rpEntityName, rpMountEntityName, title,
                   subtitle, defaultValue>>
    /\ UNCHANGED fetchVars

RPUnmount ==
    /\ rpMounted
    /\ rpMounted' = FALSE
    /\ rpEntityName' = EmptyEntityRef
    /\ rpMountEntityName' = EmptyEntityRef
    /\ title' = ""
    /\ subtitle' = ""
    /\ shadowRoot' = Undefined
    /\ rpValue' = defaultTechDocsReaderPageValue
    /\ hook' = NoHook
    /\ UNCHANGED defaultValue
    /\ UNCHANGED fetchVars

\* a consumer with no provider above it calls a setter of the value it read,
\* then reads the context again
CallDefaultSetTitle(x) ==
    /\ defaultValue' = DefaultSetTitle(defaultValue, x)
    /\ hook' = HookCall("setTitle", FALSE, x, defaultValue')
    /\ UNCHANGED <<rpMounted, rpEntityName, rpMountEntityName, title, subtitle,
                   shadowRoot, rpValue>>
    /\ UNCHANGED fetchVars

CallDefaultSetSubtitle(x) ==
    /\ defaultValue' = DefaultSetSubtitle(defaultValue, x)
    /\ hook' = HookCall("setSubtitle", FALSE, x, defaultValue')
    /\ UNCHANGED <<rpMounted, rpEntityName, rpMountEntityName, title, subtitle,
                   shadowRoot, rpValue>>
    /\ UNCHANGED fetchVars

CallDefaultSetShadowRoot(r) ==
    /\ defaultValue' = DefaultSetShadowRoot(defaultValue, r)
    /\ hook' = HookCall("setShadowRoot", FALSE, r, defaultValue')
    /\ UNCHANGED <<rpMounted, rpEntityName, rpMountEntityName, title, subtitle,
                   shadowRoot, rpValue>>
    /\ UNCHANGED fetchVars

\* a consumer renders and reads the reader page context
CallUseTechDocsReaderPage(inside) ==
    /\ inside => rpMounted
    /\ hook' = HookCall("useTechDocsReaderPage", inside, Undefined,
                        useTechDocsReaderPage(inside))
    /\ UNCHANGED <<rpMounted, rpEntityName, rpMountEntityName, title, subtitle,
                   shadowRoot, rpValue, defaultValue>>
    /\ UNCHANGED fetchVars

\* a consumer renders and calls useShadowRootElements(selectors)
CallUseShadowRootElements(inside, selectors) ==
    /\ inside => rpMounted
    /\ hook' = [name |-> "useShadowRootElements", inside |-> inside,
                arg |-> Undefined, selectors |-> selectors,
                elements |-> useShadowRootElements(useTechDocsReaderPage(inside),
                                                   selectors),
                page |-> useTechDocsReaderPage(inside)]
    /\ UNCHANGED <<rpMounted, rpEntityName, rpMountEntityName, title, subtitle,
                   shadowRoot, rpValue, defaultValue>>
    /\ UNCHANGED fetchVars

SelectorLists ==
    UNION { [1..n -> Selectors] : n \in 0..MaxSelectors }

(***************************************************************************)
(* Initial state and specifications                                        *)
(***************************************************************************)
Init ==
    /\ provider = "TechDocsMetadataProvider"
    /\ mounted = FALSE
    /\ mountId = 0
    /\ entityName = EmptyEntityRef
    /\ mountEntityName = EmptyEntityRef
    /\ asyncState = InitialAsyncState
    /\ lastCallId = 0
    /\ inflight = {}
    /\ apiCalls = {}
    /\ fetchOutcome = [status |-> "pending", result |-> Undefined]
    /\ rendered = Unmounted
    /\ rpMounted = FALSE
    /\ rpEntityName = EmptyEntityRef
    /\ rpMountEntityName = EmptyEntityRef
    /\ title = ""
    /\ subtitle = ""
    /\ shadowRoot = Undefined
    /\ rpValue = defaultTechDocsReaderPageValue
    /\ defaultValue = defaultTechDocsReaderPageValue
    /\ hook = NoHook

Next ==
    \/ \E p \in Providers, e \in EntityRefs : Mount(p, e)
    \/ \E e \in EntityRefs : Rerender(e)
    \/ \E pr \in inflight, v \in MetadataValues : Resolve(pr, v)
    \/ \E pr \in inflight, err \in ErrorValues : Reject(pr, err)
    \/ Unmount

Spec == Init /\ [][Next]_vars

ReaderNext ==
    \/ \E e \in EntityRefs : RPMount(e)
    \/ \E e \in EntityRefs : RPRerender(e)
    \/ \E x \in Titles : SetTitle(x)
    \/ \E x \in Titles : SetSubtitle(x)
    \/ \E r \in ShadowRoots \cup {Undefined} : SetShadowRoot(r)
    \/ RPUnmount
    \/ \E x \in Titles : CallDefaultSetTitle(x)
    \/ \E x \in Titles : CallDefaultSetSubtitle(x)
    \/ \E r \in ShadowRoots \cup {Undefined} : CallDefaultSetShadowRoot(r)
    \/ \E inside \in BOOLEAN : CallUseTechDocsReaderPage(inside)
    \/ \E inside \in BOOLEAN, selectors \in SelectorLists :
          CallUseShadowRootElements(inside, selectors)

ReaderSpec == Init /\ [][ReaderNext]_vars

(***************************************************************************)
(* Properties of the fetching providers (checked under Spec)               *)
(***************************************************************************)
OwnCalls(m) == {c \in apiCalls : c.mount = m}
OwnPromises(m) == {pr \in inflight : pr.mount = m}

\* C1: whenever the mount-time fetch of a mounted provider has rejected, with
\* whatever error value, the provider renders the not-found view and does not
\* render its children.
C1_RejectionRendersNotFound ==
    (mounted /\ fetchOutcome.status = "rejected")
        => (rendered.view = "NotFoundErrorPage" /\ rendered.view # "children")

\* C2: a mounted provider renders its children with an undefined context value
\* in every render before its fetch settles, and with exactly the resolved
\* value in every render after the fetch resolved.
C2_ChildrenContext ==
    mounted =>
        /\ fetchOutcome.status = "pending"
               => rendered = [view |-> "children", context |-> Undefined]
        /\ fetchOutcome.status = "resolved"
               => rendered = [view |-> "children", context |-> fetchOutcome.result]

C2_Witness ==
    /\ mounted
    /\ fetchOutcome = [status |-> "resolved", result |-> "metadata-2"]
    /\ rendered.context = "metadata-2"
    /\ entityName # mountEntityName

\* C3: the fetch phase of a mount starts in pending, and within a mount it only
\* ever changes out of pending: success and failure are terminal, whatever
\* re-renders, prop changes and fetch completions follow.
C3_PhaseOneWay ==
    [][ /\ (~mounted /\ mounted') => Phase(asyncState') = "pending"
        /\ (mounted /\ mounted' /\ mountId' = mountId)
               => (Phase(asyncState') = Phase(asyncState)
                   \/ Phase(asyncState) = "pending") ]_vars

C3_Witness ==
    /\ mounted
    /\ mountId = 2
    /\ Phase(asyncState) = "failure"
    /\ entityName # mountEntityName
    /\ inflight = {}

\* C4: every mount has issued exactly one call to the remote API, and the call
\* of the latest mount is the provider's own method with the entity reference
\* supplied at mount.
C4_OneCallPerMount ==
    /\ \A m \in 1..mountId : Cardinality(OwnCalls(m)) = 1
    /\ mountId >= 1 =>
           \E c \in OwnCalls(mountId) :
               /\ c.entityName = mountEntityName
               /\ provider = "TechDocsMetadataProvider"
                      => c.method = "getTechDocsMetadata"
               /\ provider = "TechDocsEntityProvider"
                      => c.method = "getEntityMetadata"

C4_Witness ==
    /\ mounted
    /\ mountId = 2
    /\ provider = "TechDocsEntityProvider"
    /\ fetchOutcome.status = "rejected"
    /\ entityName # mountEntityName
    /\ Cardinality(apiCalls) = 2

\* C10: once the provider is unmounted, a fetch that settles changes neither
\* its state nor what is rendered; a fresh mount starts from pending with a
\* fetch of its own, and a mount leaves pending only when its own fetch settled.
C10_StaleFetchDiscarded ==
    [][ /\ (~mounted /\ ~mounted')
               => (asyncState' = asyncState /\ rendered' = rendered
                   /\ fetchOutcome' = fetchOutcome)
        /\ (~mounted /\ mounted')
               => (asyncState'.loading /\ rendered'.context = Undefined
                   /\ {pr \in inflight' : pr.mount = mountId'} # {})
        /\ (mounted' /\ ~asyncState'.loading) => {pr \in inflight' : pr.mount = mountId'} = {} ]_vars

C10_Witness ==
    /\ ~mounted
    /\ mountId = 2
    /\ inflight = {}
    /\ asyncState = InitialAsyncState
    /\ fetchOutcome.status = "pending"
    /\ rendered = Unmounted

(***************************************************************************)
(* Properties of the reader page (checked under ReaderSpec)                *)
(***************************************************************************)
\* C5 as stated: in every render of a mount, descendants read the entityName
\* that was supplied when the provider mounted.
C5_EntityNameImmutable ==
    rpMounted => rpValue.entityName = rpMountEntityName

\* C5 as amended: every render exposes the entityName prop of that render; it
\* is the mount-time reference at mount, and no step that leaves the prop alone
\* (a setter call, a hook call, a re-render with the same prop) changes it.
C5_EntityNameFollowsProps ==
    [][ /\ rpMounted' => rpValue'.entityName = rpEntityName'
        /\ (~rpMounted /\ rpMounted') => rpValue'.entityName = rpMountEntityName'
        /\ (rpMounted /\ rpMounted' /\ rpEntityName' = rpEntityName)
               => rpValue'.entityName = rpValue.entityName ]_vars

C5_Witness ==
    /\ rpMounted
    /\ title = "X"
    /\ shadowRoot = "shadow-root-2"
    /\ rpEntityName # rpMountEntityName
    /\ rpValue.entityName = rpEntityName

RECURSIVE Concatenation(_, _)
Concatenation(root, selectors) ==
    IF selectors = <<>> THEN <<>>
    ELSE querySelectorAll(root, Head(selectors))
         \o Concatenation(root, Tail(selectors))

Occurrences(seq, el) == Cardinality({i \in DOMAIN seq : seq[i] = el})

\* C6: with a shadow root set, useShadowRootElements(selectors) is the
\* concatenation, in selector order, of each selector's matches in document
\* order; every element appears once per selector occurrence that matches it.
C6_Concatenation ==
    (hook.name = "useShadowRootElements" /\ hook.page.shadowRoot # Undefined)
        => /\ hook.elements = Concatenation(hook.page.shadowRoot, hook.selectors)
           /\ \A i \in DOMAIN Dom(hook.page.shadowRoot) :
                  Occurrences(hook.elements, Dom(hook.page.shadowRoot)[i])
                      = Cardinality({k \in DOMAIN hook.selectors :
                            IsMatch(hook.page.shadowRoot, hook.selectors[k], i)})

C6_Witness ==
    /\ hook.name = "useShadowRootElements"
    /\ hook.page.shadowRoot = "shadow-root-1"
    /\ hook.selectors = <<".x", "a">>
    /\ Len(hook.elements) = 3
    /\ hook.elements[1] = hook.elements[2]
    /\ hook.elements[3].id = 3

\* C7: useShadowRootElements returns the empty sequence whenever no shadow
\* root is present (unset in the provider, or read outside any provider), and
\* for the empty selector list whatever the shadow root.
C7_EmptyResult ==
    hook.name = "useShadowRootElements"
        => /\ (~hook.inside \/ hook.page.shadowRoot = Undefined)
                  => hook.elements = <<>>
           /\ hook.selectors = <<>> => hook.elements = <<>>

C7_Witness ==
    /\ hook.name = "useShadowRootElements"
    /\ hook.inside
    /\ rpMounted
    /\ shadowRoot = Undefined
    /\ hook.selectors = <<"a", ".x">>
    /\ hook.elements = <<>>

\* C8: a consumer outside any provider reads the default value (empty title,
\* empty subtitle, undefined shadow root, empty entity reference), also after
\* any calls of the default value's setters.
C8_DefaultOutsideProvider ==
    /\ defaultValue.title = ""
    /\ defaultValue.subtitle = ""
    /\ defaultValue.shadowRoot = Undefined
    /\ defaultValue.entityName = [kind |-> "", name |-> "", namespace |-> ""]
    /\ (hook.name # "none" /\ ~hook.inside)
           => hook.page = [entityName |-> [kind |-> "", name |-> "", namespace |-> ""],
                           shadowRoot |-> Undefined, title |-> "", subtitle |-> ""]

C8_Witness ==
    /\ hook.name = "setTitle"
    /\ ~hook.inside
    /\ hook.arg = "X"
    /\ hook.page.title = ""
    /\ rpMounted
    /\ title = "Y"

\* C9: a setter call on a mounted provider makes the next render expose the
\* value set in that field and leaves the three other fields as they were.
C9_SetterFrame ==
    [][ /\ \A x \in Titles : SetTitle(x) =>
               /\ rpValue'.title = x
               /\ rpValue'.subtitle = rpValue.subtitle
               /\ rpValue'.shadowRoot = rpValue.shadowRoot
               /\ rpValue'.entityName = rpValue.entityName
        /\ \A x \in Titles : SetSubtitle(x) =>
               /\ rpValue'.subtitle = x
               /\ rpValue'.title = rpValue.title
               /\ rpValue'.shadowRoot = rpValue.shadowRoot
               /\ rpValue'.entityName = rpValue.entityName
        /\ \A r \in ShadowRoots \cup {Undefined} : SetShadowRoot(r) =>
               /\ rpValue'.shadowRoot = r
               /\ rpValue'.title = rpValue.title
               /\ rpValue'.subtitle = rpValue.subtitle
               /\ rpValue'.entityName = rpValue.entityName ]_vars

C9_Witness ==
    /\ rpMounted
    /\ hook = HookCall("setTitle", TRUE, "X", rpValue)
    /\ rpValue.title = "X"
    /\ rpValue.subtitle = "Y"
    /\ rpValue.shadowRoot = "shadow-root-1"

====
